---- MODULE Spec2Model ----
(***************************************************************************)
(* Model of signalwire_adapter.py: the poll loop (main), one cycle         *)
(* (process_recordings), the assembly of a vCon from a recording           *)
(* (create_vcon_from_recording), its delivery (send_vcon_to_webhook) and   *)
(* the signal handler.  The provider, the webhook and the wall clock are   *)
(* the environment: their answers are drawn from small sets.               *)
(***************************************************************************)
EXTENDS Integers, Sequences, FiniteSets, TLC

\* ---------------------------------------------------------------- bounds
\* POLL_INTERVAL is read from the environment (default 300); the model runs
\* it with a small number of one-second ticks.
POLL_INTERVAL == 2
\* last value of the wall clock
MaxTime == 7
\* recordings the provider creates during one run
MaxRec == 2

\* ------------------------------------------------------------- constants
None == "None"
NoVcon == [none |-> TRUE]

RequiredNames ==
  {"SIGNALWIRE_PROJECT_ID", "SIGNALWIRE_SPACE_URL", "SIGNALWIRE_AUTH_TOKEN", "WEBHOOK_URL"}

\* the exception classes the program meets; all of them derive from Exception
RequestExceptions == {"ConnectionError", "Timeout", "HTTPError"}
ExceptionClasses ==
  RequestExceptions \cup {"JSONDecodeError", "KeyError", "ValueError", "TypeError", "Exception"}

\* ---------------------------------------------------------- environment
\* answers of the provider's list endpoint: a status and whether the body
\* holds the 'recordings' key; or an exception of the transport
ListResponses ==
  {[status |-> 200, exc |-> "none", body |-> "recordings"],
   [status |-> 200, exc |-> "none", body |-> "other"],
   [status |-> 204, exc |-> "none", body |-> "other"],
   [status |-> 500, exc |-> "none", body |-> "other"],
   [status |-> 0, exc |-> "ConnectionError", body |-> "other"]}

\* answers of the call endpoint: a status and a JSON body
CallBody == [to_formatted |-> "+15550001", from_formatted |-> "+15550002"]
ErrorBody == [code |-> "20404"]
MetaResponses ==
  {[status |-> 200, exc |-> "none", body |-> CallBody],
   [status |-> 404, exc |-> "none", body |-> CallBody],
   [status |-> 404, exc |-> "none", body |-> ErrorBody],
   [status |-> 0, exc |-> "ConnectionError", body |-> ErrorBody]}

\* values of recording['date_created']
ValidDate == "Mon, 01 Jan 2024 10:00:00 +0000"
IsoDate == "2024-01-01T10:00:00Z"
RangeDate == "Mon, 32 Jan 2024 10:00:00 +0000"
DateValues == {ValidDate, IsoDate, RangeDate}

\* the interpreter: email.utils.parsedate_to_datetime raises TypeError for an
\* unparsable value before Python 3.10 and ValueError from 3.10 on
Runtimes == {"py39", "py310"}

\* entries of a transcription response: with text, with empty text, without
Hello == [sid |-> "TR1", text |-> "hello"]
Bye == [sid |-> "TR2", text |-> "bye"]
Empty == [sid |-> "TR3", text |-> ""]
NoText == [sid |-> "TR4"]
TransResponses ==
  {[status |-> 200, body |-> b] : b \in {<<Empty>>, <<NoText>>, <<Bye, NoText, Hello>>}}
  \cup {[status |-> 404, body |-> <<>>]}
\* a recording as the list endpoint returns it: its timestamp and whether its
\* subresource_uris hold 'transcriptions'
RecordingShapes == [date_created : DateValues, has_transcriptions : BOOLEAN]

\* answers of the webhook: a status, or an exception of the transport
WebhookResponses ==
  {[status |-> 200, exc |-> "none"], [status |-> 204, exc |-> "none"],
   [status |-> 304, exc |-> "none"], [status |-> 500, exc |-> "none"],
   [status |-> 0, exc |-> "Timeout"]}

\* what one assembly reads: the recording, the answers of the provider and the
\* interpreter; an answer that is not requested is taken once
AssemblyInputs ==
  {c \in [shape : RecordingShapes, meta : MetaResponses, trans : TransResponses,
          runtime : Runtimes] :
     /\ c.shape.has_transcriptions \/ c.trans.status = 404
     /\ c.shape.date_created = IsoDate \/ c.runtime = "py310"}

Is2xx(status) == status \in 200..299

VARIABLES
  pc,               \* where the program is
  missing_vars,     \* required variables absent from the environment
  running,          \* the loop-control flag
  clock,            \* the wall clock, datetime.utcnow()
  last_check_time,  \* main's last_check_time
  current_time,     \* main's current_time
  created,          \* provider: creation time of recording sid = index
  new_recordings,   \* process_recordings: the fetched batch (sids)
  idx,              \* process_recordings: recordings of the batch done
  vcon,             \* the document between assembly and delivery
  tick,             \* main: iterations of the sleep loop done
  results,          \* this cycle: outcome of every recording done
  last,             \* the recording of this iteration: its timestamp until it
                    \* is sent, the status of its call lookup once assembled,
                    \* the transcription entries fetched for it,
                    \* the exception of its assembly, the answer to its POST
  cyc,              \* this cycle's list query: since, outcome, and the
                    \* outcome of the cycle before
  prev_time,        \* current_time of the cycle before this one
  born,             \* sids created while this cycle's batch was processed
  carry,            \* sids created while the previous cycle's batch was
  sig,              \* the first signal: where it arrived, what came after
  covered,          \* sids that an answered list query has returned
  delivered         \* sids whose POST was accepted in an earlier cycle

vars ==
  <<pc, missing_vars, running, clock, last_check_time, current_time, created,
    new_recordings, idx, vcon, tick, results, last, cyc, prev_time, born, carry, sig,
    covered, delivered>>

\* ------------------------------------------------------- pure functions
\* a result is a value or a raised exception
Ok(v) == [exc |-> "none", val |-> v]
Raise(e) == [exc |-> e, val |-> None]

\* fetch_call_meta: the body of the answer as JSON, whatever the status
fetch_call_meta(resp) ==
  IF resp.exc # "none" THEN Raise(resp.exc) ELSE Ok(resp.body)

\* the timestamp passed as DateCreatedAfter
QuerySinceRoundedUp(lct) == lct + 1
QuerySinceEarlier(lct) == lct - 1
QuerySince(lct) == lct

\* the provider's list endpoint: the recordings created strictly after since,
\* in the provider's order
RECURSIVE CreatedAfter(_, _, _)
CreatedAfter(cr, since, i) ==
  IF i > Len(cr) THEN <<>>
  ELSE (IF cr[i] > since THEN <<i>> ELSE <<>>) \o CreatedAfter(cr, since, i + 1)

\* fetch_new_recordings: the 'recordings' of a status-200 answer
fetch_new_recordings(resp, cr, lct) ==
  IF resp.exc # "none" THEN Raise(resp.exc)
  ELSE IF resp.status = 200
       THEN (IF resp.body = "recordings"
             THEN Ok(CreatedAfter(cr, QuerySince(lct), 1))
             ELSE Raise("KeyError"))
       ELSE Raise("Exception")

\* fetch_transcription: the body of a status-200 answer
fetch_transcription(resp) ==
  IF resp.status = 200 THEN Ok(resp.body) ELSE Raise("Exception")

\* email.utils.parsedate_to_datetime(...).isoformat()
parsedate_to_datetime(date, runtime) ==
  IF date = ValidDate THEN Ok("2024-01-01T10:00:00+00:00")
  ELSE IF date = RangeDate THEN Raise("ValueError")
  ELSE IF runtime = "py39" THEN Raise("TypeError") ELSE Raise("ValueError")

\* lines 151-156: the dialog's start, None after a TypeError
DateCreatedIso(date, runtime) ==
  LET r == parsedate_to_datetime(date, runtime)
  IN IF r.exc = "TypeError" THEN Ok(None) ELSE r

\* lines 190-195: one attachment per entry that has a 'text' key
RECURSIVE TranscriptionAttachments(_)
TranscriptionAttachments(entries) ==
  IF entries = <<>> THEN <<>>
  ELSE (IF "text" \in DOMAIN Head(entries)
        THEN <<[type |-> "transcription", body |-> Head(entries)]>>
        ELSE <<>>) \o TranscriptionAttachments(Tail(entries))

\* lines 158-161
PartiesSwapped(call_meta) ==
  <<[tel |-> call_meta.from_formatted], [tel |-> call_meta.to_formatted]>>
Parties(call_meta) ==
  <<[tel |-> call_meta.to_formatted], [tel |-> call_meta.from_formatted]>>

\* lines 169-174; the url, the recording's uri with its suffix replaced, is
\* left out
DialogOf(recording, start) ==
  [type |-> "recording", start |-> start, parties |-> <<0, 1>>,
   duration |-> recording.duration, mimetype |-> "audio/mpeg"]

\* lines 176-185
MetadataAttachment(recording) ==
  [type |-> "recording_metadata",
   body |-> [sid |-> recording.sid, account_sid |-> recording.account_sid,
             call_sid |-> recording.call_sid, channels |-> recording.channels,
             source |-> "SignalWire"]]

\* create_vcon_from_recording
create_vcon_from_recording(recording, metaResp, transResp, runtime) ==
  LET call_meta == fetch_call_meta(metaResp)
      iso == DateCreatedIso(recording.date_created, runtime)
      trans == IF recording.has_transcriptions
               THEN fetch_transcription(transResp) ELSE Ok(<<>>)
  IN IF call_meta.exc # "none" THEN Raise(call_meta.exc)
     ELSE IF iso.exc # "none" THEN Raise(iso.exc)
     ELSE IF ~({"to_formatted", "from_formatted"} \subseteq DOMAIN call_meta.val)
          THEN Raise("KeyError")
     ELSE IF trans.exc # "none" THEN Raise(trans.exc)
     ELSE Ok([parties |-> Parties(call_meta.val),
              dialog |-> <<DialogOf(recording, iso.val)>>,
              attachments |-> <<MetadataAttachment(recording)>>
                                \o TranscriptionAttachments(trans.val)])

\* response.raise_for_status(): HTTPError for a 4xx or 5xx status
raise_for_status(status) == status \in 400..599

\* send_vcon_to_webhook: one POST; "sent" when line 214 is reached, "failed"
\* when a RequestException is caught at line 215
send_vcon_with_retry(resp) ==
  LET failed == resp.exc # "none" \/ raise_for_status(resp.status)
  IN [posts |-> IF failed THEN 2 ELSE 1, log |-> IF failed THEN "failed" ELSE "sent",
      exc |-> "none"]
send_vcon_to_webhook(resp) ==
  LET e == IF resp.exc # "none" THEN resp.exc
           ELSE IF raise_for_status(resp.status) THEN "HTTPError" ELSE "none"
  IN IF e = "none" THEN [posts |-> 1, log |-> "sent", exc |-> "none"]
     ELSE IF e \in RequestExceptions THEN [posts |-> 1, log |-> "failed", exc |-> "none"]
     ELSE [posts |-> 1, log |-> "none", exc |-> e]

\* line 231: except Exception
RecordingGuardKeyError(e) == e = "KeyError"
RecordingGuard(e) == e \in ExceptionClasses
\* line 246: except Exception
CycleGuardRequestException(e) == e \in RequestExceptions
CycleGuard(e) == e \in ExceptionClasses
\* line 249
NextLastCheckNow(cur, now) == now
NextLastCheck(cur, now) == cur
\* line 256: if not running: break
SleepNoBreak(run) == FALSE
SleepBreak(run) == ~run

\* the timeout every request is made with: requests waits without limit when
\* none is given (lines 81-84, 103-107 and 131), ten seconds at line 212
Calls == {"list", "call_meta", "transcription", "webhook"}
TimeoutOf(call) == IF call = "webhook" THEN "10" ELSE None

\* line 43: the names of required_vars whose value is None
MissingWithoutWebhook(absent) == absent \cap (RequiredNames \ {"WEBHOOK_URL"})
Missing(absent) == absent \cap RequiredNames
\* lines 62 and 236
FirstLastCheckAhead(now) == now + POLL_INTERVAL
FirstLastCheck(now) == now - POLL_INTERVAL

\* line 110: the assignment in fetch_new_recordings binds its parameter, a
\* local name; main's last_check_time keeps its value
FetchAssignsGlobal(lct, now) == now
FetchAssignsLocal(lct, now) == lct
\* line 221: for recording in recordings, the recording after i done
NextRecordingFromEnd(batch, i) == batch[Len(batch) - i]
NextRecording(batch, i) == batch[i + 1]
\* line 221: the loop ends when the list is exhausted; the flag is not read
BatchExhaustedOrStopped(batch, i, run) == i = Len(batch) \/ ~run
BatchExhausted(batch, i, run) == i = Len(batch)

\* ------------------------------------------------------------ the state
NoLast == [sid |-> 0]
NoSignal == [at |-> "none", ticks |-> 0, work |-> FALSE, cycles |-> FALSE]
Stopped == {"init", "env_error", "done", "crashed", "blocked"}

\* where a signal finds the program: in the sleep loop, in a batch, elsewhere
Place(p) ==
  IF p \in {"sleep_check", "sleeping"} THEN "sleep"
  ELSE IF p \in {"batch", "deliver"} THEN "batch" ELSE "other"

\* what the first signal has seen since it arrived
AfterSignal(field, value) ==
  IF sig.at = "none" THEN sig ELSE [sig EXCEPT ![field] = value]

Init ==
  /\ pc = "init"
  /\ missing_vars \in SUBSET RequiredNames
  /\ running = TRUE
  /\ clock = POLL_INTERVAL
  /\ last_check_time = FirstLastCheck(clock)
  /\ current_time = -1
  /\ created = <<>>
  /\ new_recordings = <<>>
  /\ idx = 0
  /\ vcon = NoVcon
  /\ tick = 0
  /\ results = <<>>
  /\ last = NoLast
  /\ cyc = [since |-> -1, fetch |-> "none", before |-> "none"]
  /\ prev_time = -1
  /\ born = {}
  /\ carry = {}
  /\ sig = NoSignal
  /\ covered = {}
  /\ delivered = {}

\* lines 43-45 and 236: the check of the environment, then main's first lines
Startup ==
  /\ pc = "init"
  /\ IF Missing(missing_vars) # {}
     THEN pc' = "env_error" /\ UNCHANGED last_check_time
     ELSE pc' = "loop" /\ last_check_time' = FirstLastCheck(clock)
  /\ UNCHANGED <<missing_vars, running, clock, current_time, created, new_recordings,
                 idx, vcon, tick, results, last, cyc, prev_time, born, carry, sig>>
  /\ UNCHANGED <<covered, delivered>>

\* lines 240-242: the loop condition holds, a cycle starts
StartCycle ==
  /\ pc = "loop"
  /\ running
  /\ current_time' = clock
  /\ prev_time' = current_time
  /\ pc' = "fetch"
  /\ cyc' = [since |-> -1, fetch |-> "none", before |-> cyc.fetch]
  /\ carry' = born
  /\ born' = {}
  /\ sig' = AfterSignal("cycles", TRUE)
  /\ UNCHANGED <<missing_vars, running, clock, last_check_time, created, new_recordings,
                 idx, vcon, tick, results, last>>
  /\ UNCHANGED <<covered, delivered>>

\* lines 240 and 260: the loop condition fails, main returns
Exit ==
  /\ pc = "loop"
  /\ ~running
  /\ pc' = "done"
  /\ UNCHANGED <<missing_vars, running, clock, last_check_time, current_time, created,
                 new_recordings, idx, vcon, tick, results, last, cyc, prev_time, born,
                 carry, sig>>
  /\ UNCHANGED <<covered, delivered>>

\* lines 219 and 97-118: the list query and its answer; the round trip takes
\* time, so the clock read after it is later than current_time
ListFetch ==
  /\ pc = "fetch"
  /\ clock < MaxTime
  /\ \E resp \in ListResponses :
       LET r == fetch_new_recordings(resp, created, last_check_time)
       IN /\ cyc' = [cyc EXCEPT !.since = QuerySince(last_check_time),
                                !.fetch = IF r.exc = "none" THEN "ok" ELSE "failed"]
          /\ IF r.exc = "none"
             THEN /\ new_recordings' = r.val
                  /\ covered' = covered \cup {r.val[i] : i \in DOMAIN r.val}
                  /\ pc' = "batch"
             ELSE /\ UNCHANGED <<new_recordings, covered>>
                  /\ pc' = IF CycleGuard(r.exc) THEN "cycle_end" ELSE "crashed"
  /\ clock' = clock + 1
  /\ last_check_time' = FetchAssignsLocal(last_check_time, clock + 1)
  /\ sig' = AfterSignal("work", TRUE)
  /\ UNCHANGED <<missing_vars, running, current_time, created, idx,
                 vcon, tick, results, last, prev_time, born, carry>>
  /\ UNCHANGED delivered

\* lines 221-226 and 231-232: the next recording of the batch is assembled.
\* Every recording of the list carries the keys the code reads, 'sid' among
\* them: line 222 reads it before the try.
Assemble ==
  /\ pc = "batch"
  /\ ~BatchExhausted(new_recordings, idx, running)
  /\ \E c \in AssemblyInputs :
       LET recording == [sid |-> NextRecording(new_recordings, idx),
                         account_sid |-> "AC", call_sid |-> "CA",
                         channels |-> "1", duration |-> "12",
                         date_created |-> c.shape.date_created,
                         has_transcriptions |-> c.shape.has_transcriptions]
           metaResp == c.meta
           r == create_vcon_from_recording(recording, c.meta, c.trans, c.runtime)
       IN /\ last' = [sid |-> recording.sid, date |-> recording.date_created,
                      meta |-> IF r.exc = "none" THEN metaResp.status ELSE -1,
                      trans |-> IF r.exc = "none" /\ recording.has_transcriptions
                                THEN c.trans.body ELSE <<>>,
                      exc |-> r.exc, post |-> -1, sent |-> "none", log |-> "none"]
          /\ IF r.exc = "none"
             THEN /\ vcon' = r.val
                  /\ pc' = "deliver"
                  /\ UNCHANGED <<idx, results>>
             ELSE /\ UNCHANGED vcon
                  /\ IF RecordingGuard(r.exc)
                     THEN /\ pc' = "batch"
                          /\ idx' = idx + 1
                          /\ results' = Append(results,
                               [sid |-> recording.sid, assembled |-> FALSE, posts |-> 0,
                                sent |-> "none", log |-> "error"])
                     ELSE /\ pc' = IF CycleGuard(r.exc) THEN "cycle_end" ELSE "crashed"
                          /\ UNCHANGED <<idx, results>>
  /\ sig' = AfterSignal("work", TRUE)
  /\ UNCHANGED <<missing_vars, running, clock, last_check_time, current_time, created,
                 new_recordings, tick, cyc, prev_time, born, carry>>
  /\ UNCHANGED <<covered, delivered>>

\* lines 228-232: the document is sent and dropped
Deliver ==
  /\ pc = "deliver"
  /\ \E resp \in WebhookResponses :
       LET d == send_vcon_to_webhook(resp)
       IN /\ last' = [last EXCEPT !.date = "sent", !.trans = <<>>, !.post = resp.status, !.sent = d.log,
                                  !.log = IF d.exc = "none" THEN "processed" ELSE "error"]
          /\ results' = Append(results,
               [sid |-> last.sid, assembled |-> TRUE, posts |-> d.posts, sent |-> d.log,
                log |-> IF d.exc = "none" THEN "processed" ELSE "error"])
          /\ pc' = IF d.exc = "none" \/ RecordingGuard(d.exc) THEN "batch"
                   ELSE IF CycleGuard(d.exc) THEN "cycle_end" ELSE "crashed"
  /\ idx' = idx + 1
  /\ vcon' = NoVcon
  /\ sig' = AfterSignal("work", TRUE)
  /\ UNCHANGED <<missing_vars, running, clock, last_check_time, current_time, created,
                 new_recordings, tick, cyc, prev_time, born, carry>>
  /\ UNCHANGED <<covered, delivered>>

\* line 221: the batch is exhausted, process_recordings returns
BatchDone ==
  /\ pc = "batch"
  /\ BatchExhausted(new_recordings, idx, running)
  /\ pc' = "cycle_end"
  /\ UNCHANGED <<missing_vars, running, clock, last_check_time, current_time, created,
                 new_recordings, idx, vcon, tick, results, last, cyc, prev_time, born,
                 carry, sig>>
  /\ UNCHANGED <<covered, delivered>>

\* lines 249-253: the window moves, then the flag decides on the sleep; what
\* process_recordings held is gone
CycleEnd ==
  /\ pc = "cycle_end"
  /\ last_check_time' = NextLastCheck(current_time, clock)
  /\ tick' = 0
  /\ pc' = IF running THEN "sleep_check" ELSE "loop"
  /\ new_recordings' = <<>>
  /\ idx' = 0
  /\ results' = <<>>
  /\ last' = NoLast
  /\ delivered' = delivered \cup {results[i].sid : i \in {j \in DOMAIN results :
                                                      results[j].sent = "sent"}}
  /\ UNCHANGED <<missing_vars, running, clock, current_time, created, vcon, cyc,
                 prev_time, born, carry, sig>>
  /\ UNCHANGED covered

\* lines 255-257: one iteration of the sleep loop begins
SleepCheck ==
  /\ pc = "sleep_check"
  /\ pc' = IF tick >= POLL_INTERVAL \/ SleepBreak(running) THEN "loop" ELSE "sleeping"
  /\ UNCHANGED <<missing_vars, running, clock, last_check_time, current_time, created,
                 new_recordings, idx, vcon, tick, results, last, cyc, prev_time, born,
                 carry, sig>>
  /\ UNCHANGED <<covered, delivered>>

\* line 258: time.sleep(1) returns
SleepTick ==
  /\ pc = "sleeping"
  /\ clock < MaxTime
  /\ clock' = clock + 1
  /\ tick' = tick + 1
  /\ pc' = "sleep_check"
  /\ sig' = AfterSignal("ticks", sig.ticks + 1)
  /\ UNCHANGED <<missing_vars, running, last_check_time, current_time, created,
                 new_recordings, idx, vcon, results, last, cyc, prev_time, born, carry>>
  /\ UNCHANGED <<covered, delivered>>

\* lines 53-57: SIGINT or SIGTERM, at any point after the handlers are set
Signal ==
  /\ pc \notin Stopped
  /\ running' = FALSE
  /\ sig' = IF sig.at = "none" THEN [sig EXCEPT !.at = Place(pc)] ELSE sig
  /\ UNCHANGED <<pc, missing_vars, clock, last_check_time, current_time, created,
                 new_recordings, idx, vcon, tick, results, last, cyc, prev_time, born,
                 carry>>
  /\ UNCHANGED <<covered, delivered>>

\* a server accepts a request and never answers: a request made without a
\* timeout never returns; one made with a timeout raises Timeout, which is
\* among the answers of Deliver
NeverAnswers ==
  /\ \E call \in Calls :
       /\ TimeoutOf(call) = None
       /\ \/ call = "list" /\ pc = "fetch"
          \/ call \in {"call_meta", "transcription"} /\ pc = "batch"
               /\ idx < Len(new_recordings)
          \/ call = "webhook" /\ pc = "deliver"
  /\ pc' = "blocked"
  /\ UNCHANGED <<missing_vars, running, clock, last_check_time, current_time, created,
                 new_recordings, idx, vcon, tick, results, last, cyc, prev_time, born,
                 carry, sig>>
  /\ UNCHANGED <<covered, delivered>>

\* the provider: a call is recorded, the recording is stamped with the time of
\* the clock the program reads
CreateRecording ==
  /\ pc \notin Stopped
  /\ Len(created) < MaxRec
  /\ created' = Append(created, clock)
  /\ born' = IF pc \in {"batch", "deliver"} THEN born \cup {Len(created) + 1} ELSE born
  /\ UNCHANGED <<pc, missing_vars, running, clock, last_check_time, current_time,
                 new_recordings, idx, vcon, tick, results, last, cyc, prev_time, carry,
                 sig>>
  /\ UNCHANGED <<covered, delivered>>

\* the wall clock advances while the list request is on its way: a recording
\* can be stamped later than current_time and still be in the answer
Tick ==
  /\ pc = "fetch"
  /\ clock < MaxTime
  /\ clock' = clock + 1
  /\ UNCHANGED <<pc, missing_vars, running, last_check_time, current_time, created,
                 new_recordings, idx, vcon, tick, results, last, cyc, prev_time, born,
                 carry, sig>>
  /\ UNCHANGED <<covered, delivered>>

Next ==
  \/ Startup
  \/ StartCycle
  \/ Exit
  \/ ListFetch
  \/ Assemble
  \/ Deliver
  \/ BatchDone
  \/ CycleEnd
  \/ SleepCheck
  \/ SleepTick
  \/ Signal
  \/ CreateRecording
  \/ NeverAnswers
  \/ Tick

Spec == Init /\ [][Next]_vars

\* ------------------------------------------------------------ the claims
InBatch == pc \in {"batch", "deliver", "cycle_end"} /\ cyc.fetch = "ok"

\* C1: per-recording fault isolation. Whatever fails while a recording is
\* assembled or delivered, the loop over the batch goes on: the recordings done
\* are the first idx of the batch in order, every assembled one was POSTed, and
\* when process_recordings returns every recording of the batch was done; the
\* process never dies of it.
C1_FaultIsolation ==
  /\ pc # "crashed"
  /\ InBatch =>
       /\ Len(results) = idx
       /\ \A i \in DOMAIN results :
            /\ results[i].sid = new_recordings[i]
            /\ results[i].assembled => results[i].posts >= 1
       /\ pc = "cycle_end" => Len(results) = Len(new_recordings)

\* a batch of two whose first recording failed in assembly and whose second was
\* still assembled and POSTed
C1_Witness ==
  /\ pc = "cycle_end"
  /\ Len(new_recordings) = 2
  /\ Len(results) = 2
  /\ results[1].log = "error"
  /\ results[2].assembled
  /\ results[2].posts = 1

\* C2: once a cycle is over, last_check_time is the time captured at its start,
\* before the list query was answered, whatever the outcome of the cycle; and
\* the next list query is made with that value.
C2_WindowIsCycleStart ==
  /\ (pc \in {"sleep_check", "sleeping", "loop", "done"} /\ current_time # -1)
       => last_check_time = current_time
  /\ cyc.fetch # "none" => current_time < clock
  /\ (cyc.since # -1 /\ prev_time # -1) => cyc.since = prev_time

\* the second cycle has queried with the first cycle's start time, after a first
\* cycle whose list query failed
C2_Witness ==
  /\ pc = "sleep_check"
  /\ cyc.before = "failed"
  /\ prev_time # -1
  /\ cyc.since = prev_time
  /\ last_check_time = current_time
  /\ current_time < clock

\* C3: a recording created while the batch of a cycle was processed is inside
\* the window the next cycle asks for, and is in the list the next cycle gets.
C3_BornInBatchIsFetchedNext ==
  /\ cyc.since # -1 => \A s \in carry : created[s] > cyc.since
  /\ InBatch => \A s \in carry : \E i \in DOMAIN new_recordings : new_recordings[i] = s

\* the next cycle has fetched a recording created during the previous batch
C3_Witness ==
  /\ pc = "batch"
  /\ cyc.fetch = "ok"
  /\ carry # {}

\* C4: a signal that arrives in the sleep loop is followed by at most one
\* return of time.sleep(1), by no list query, assembly or POST and by no new
\* cycle.
C4_SignalInSleep ==
  sig.at = "sleep" =>
    /\ sig.ticks <= 1
    /\ ~sig.work
    /\ ~sig.cycles
    /\ pc \in {"sleep_check", "sleeping", "loop", "done"}

\* the loop has ended after a signal that arrived during time.sleep(1)
C4_Witness ==
  /\ sig.at = "sleep"
  /\ sig.ticks = 1
  /\ pc = "done"

\* C5: after a failed list query nothing is processed in the cycle, the process
\* survives, and the loop goes to the end of the cycle, the sleep and the next
\* loop condition.
C5_FailedFetchIsCaught ==
  cyc.fetch = "failed" =>
    /\ new_recordings = <<>>
    /\ results = <<>>
    /\ vcon = NoVcon
    /\ pc \in {"cycle_end", "sleep_check", "sleeping", "loop", "done"}
    /\ pc = "done" => ~running

\* a cycle has begun after a cycle whose list query failed
C5_Witness ==
  /\ pc = "fetch"
  /\ cyc.before = "failed"
  /\ running

\* C6: no document is POSTed for a recording whose call lookup was answered
\* with a status outside 2xx.
C6_NoPostAfterFailedLookup ==
  (last.sid # 0 /\ last.post # -1) => Is2xx(last.meta)

\* C7: a delivery is logged as sent exactly when the webhook answered 2xx.
C7_SentIffTwoHundreds ==
  (last.sid # 0 /\ last.post # -1) => (last.sent = "sent" <=> Is2xx(last.post))

\* C8: a recording causes one POST when it was assembled and none when it was
\* not; a failed delivery returns normally (line 230 is reached, nothing is
\* raised) and the loop goes on: to the next recording, where a request may be
\* waiting for its answer, or to the end of the batch.
C8_NoRetry ==
  /\ \A i \in DOMAIN results :
       /\ results[i].posts = IF results[i].assembled THEN 1 ELSE 0
       /\ results[i].sent = "failed" => results[i].log = "processed"
       /\ \A j \in DOMAIN results : results[i].sid = results[j].sid => i = j
  /\ (last.sid # 0 /\ last.sent = "failed") =>
       (pc \in {"batch", "cycle_end", "blocked"} /\ last.log = "processed")

\* the first delivery of a batch failed and the second recording was done
C8_Witness ==
  /\ Len(results) = 2
  /\ results[1].sent = "failed"
  /\ results[1].posts = 1
  /\ results[2].posts = 1

\* C9: the document handed to delivery has the two parties, to then from, one
\* dialog of type recording over parties [0,1], and one recording_metadata
\* attachment, whose source is SignalWire.
C9_DocumentShape ==
  pc = "deliver" =>
    /\ Len(vcon.parties) = 2
    /\ vcon.parties[1].tel = CallBody.to_formatted
    /\ vcon.parties[2].tel = CallBody.from_formatted
    /\ Len(vcon.dialog) = 1
    /\ vcon.dialog[1].type = "recording"
    /\ vcon.dialog[1].parties = <<0, 1>>
    /\ Cardinality({i \in DOMAIN vcon.attachments :
                      vcon.attachments[i].type = "recording_metadata"}) = 1
    /\ vcon.attachments[1].type = "recording_metadata"
    /\ vcon.attachments[1].body.source = "SignalWire"
    /\ vcon.attachments[1].body.sid = last.sid

\* a document with transcriptions is about to be sent
C9_Witness ==
  /\ pc = "deliver"
  /\ Len(vcon.attachments) = 3

\* C10: a timestamp that does not parse never makes the assembly raise, and the
\* document then has no dialog start.
C10_MalformedDateAssembles ==
  (last.sid # 0 /\ last.date \in {IsoDate, RangeDate}) =>
    /\ last.exc \notin {"ValueError", "TypeError"}
    /\ pc = "deliver" => vcon.dialog[1].start = None

\* the entries of a transcription response that hold a text that is not empty
RECURSIVE WithText(_)
WithText(entries) ==
  IF entries = <<>> THEN <<>>
  ELSE (IF "text" \in DOMAIN Head(entries) /\ Head(entries).text # ""
        THEN <<Head(entries)>> ELSE <<>>) \o WithText(Tail(entries))

\* C11: the transcription attachments of the document handed to delivery are
\* the fetched entries whose text is not empty, in the order of the response.
C11_TranscriptionsWithText ==
  pc = "deliver" =>
    /\ Len(vcon.attachments) = 1 + Len(WithText(last.trans))
    /\ \A i \in 1..Len(WithText(last.trans)) :
         /\ vcon.attachments[i + 1].type = "transcription"
         /\ vcon.attachments[i + 1].body = WithText(last.trans)[i]

\* C12: when a required variable is absent the program stops at line 45, with
\* the absent names in its message: the loop is never entered and no request is
\* ever made.
C12_FailFast ==
  missing_vars # {} =>
    /\ pc \in {"init", "env_error"}
    /\ pc = "env_error" => Missing(missing_vars) = missing_vars
    /\ current_time = -1
    /\ cyc.since = -1
    /\ cyc.fetch = "none"
    /\ results = <<>>
    /\ last = NoLast
    /\ vcon = NoVcon

\* the program has stopped for the webhook URL alone
C12_Witness ==
  /\ pc = "env_error"
  /\ missing_vars = {"WEBHOOK_URL"}

\* C13: every request is made with a finite timeout, so none waits for ever:
\* the program is never inside a request that will not return.
C13_EveryCallReturns == pc # "blocked"

\* C14: within a cycle the recordings are processed one after another in the
\* order of the provider's list: the recordings done are the first idx of the
\* list, a document exists only between the assembly and the POST of the
\* recording after them, and nothing of a later recording has been done.
C14_SequentialInOrder ==
  InBatch =>
    /\ idx = Len(results)
    /\ idx <= Len(new_recordings)
    /\ \A i \in DOMAIN results : results[i].sid = new_recordings[i]
    /\ \A i \in DOMAIN new_recordings :
         i > idx + 1 => new_recordings[i] # last.sid
    /\ pc = "deliver" => vcon # NoVcon /\ last.sid = new_recordings[idx + 1]
    /\ pc # "deliver" => vcon = NoVcon

\* a batch of two recordings, both POSTed, the first before the second
C14_Witness ==
  /\ pc = "batch"
  /\ Len(results) = 2
  /\ results[1].posts = 1
  /\ results[2].posts = 1
  /\ results[1].sid # results[2].sid

\* C15: last_check_time starts as the start-up time minus POLL_INTERVAL and
\* never decreases afterwards.
C15_LastCheckMonotone ==
  /\ last_check_time = clock - POLL_INTERVAL
  /\ [][last_check_time' >= last_check_time]_vars

\* the second cycle is over: last_check_time has advanced twice
C15_Witness ==
  /\ pc = "sleep_check"
  /\ prev_time # -1
  /\ current_time > prev_time
  /\ last_check_time = current_time

\* C16: a signal that arrives while a batch is processed does not stop the
\* batch: a document assembled is still POSTed, process_recordings returns only
\* when every recording of the batch was done, and afterwards the program
\* neither sleeps nor starts another cycle.
C16_SignalInBatch ==
  sig.at = "batch" =>
    /\ ~sig.cycles
    /\ sig.ticks = 0
    /\ pc \notin {"fetch", "sleep_check", "sleeping", "crashed"}
    /\ pc = "deliver" => vcon # NoVcon
    /\ pc = "cycle_end" =>
         /\ Len(results) = Len(new_recordings)
         /\ \A i \in DOMAIN results : results[i].assembled => results[i].posts = 1

\* the signal arrived in a batch, recordings were processed after it and the
\* program has left the loop
C16_Witness ==
  /\ pc = "done"
  /\ sig.at = "batch"
  /\ sig.work

\* C17: last_check_time is never advanced past a recording that no answered
\* list query has returned: every recording created at or before
\* last_check_time was in the answer of some list query.
C17_NoRecordingLost ==
  \A s \in DOMAIN created : created[s] <= last_check_time => s \in covered

\* C18 as stated: no recording is delivered in two cycles.
C18_DeliveredInOneCycle ==
  \A i \in DOMAIN results :
    results[i].sent = "sent" => results[i].sid \notin delivered

\* C18: a recording is delivered in a second cycle only if it was created
\* after the start time the cycle before had captured, and before that cycle's
\* list query was answered.
C18_RepeatsAreBoundary ==
  \A i \in DOMAIN results :
    (results[i].sent = "sent" /\ results[i].sid \in delivered) =>
      /\ created[results[i].sid] > prev_time
      /\ created[results[i].sid] <= current_time
      /\ results[i].sid \notin carry
      /\ cyc.before = "ok"

\* a recording is delivered for the second time
C18_Witness ==
  \E i \in DOMAIN results :
    results[i].sent = "sent" /\ results[i].sid \in delivered

\* C19: a recording whose delivery failed is not logged as processed.
C19_ProcessedOnlyIfDelivered ==
  \A i \in DOMAIN results :
    results[i].sent = "failed" => results[i].log # "processed"

\* C20: main's last_check_time changes only in the step that ends a cycle; the
\* flag, once cleared, stays cleared; and the step that clears it changes
\* nothing else of the program.
C20_OnlyMainWritesLastCheck ==
  [][/\ last_check_time' # last_check_time => pc = "cycle_end"
     /\ ~running => ~running'
     /\ running' # running =>
          UNCHANGED <<pc, missing_vars, clock, last_check_time, current_time,
                      new_recordings, idx, vcon, tick, results, last>>]_vars

\* a signal arrived during the list query, the query was answered and a
\* document assembled, and last_check_time is still the value queried with
C20_Witness ==
  /\ pc = "deliver"
  /\ ~running
  /\ sig.at = "other"
  /\ cyc.fetch = "ok"
  /\ last_check_time = cyc.since
====
